---- MODULE Spec2Model ----
(***************************************************************************)
(* The auth-service of yokedo: the users table, the user_sessions table,   *)
(* and the handlers of app/routers/auth.py with the helpers of app/core.   *)
(* Every handler is split at the points where it awaits the database, so   *)
(* that concurrent requests interleave as they do under the event loop     *)
(* and under the store's READ COMMITTED transactions.                      *)
(***************************************************************************)
EXTENDS Integers, Sequences, FiniteSets, TLC

(* ------------------------------ bounds -------------------------------- *)
MaxProcs == 2        \* requests in flight at once
MaxTicks == 1        \* advances of the clock
MaxCalls == 3        \* requests received

(* ------------------------- program constants -------------------------- *)
access_token_expire_minutes == 60
REFRESH_DAYS == 30

Procs == 1..MaxProcs
Emails == {"a@x.com", "b@x.com"}
NoAlias == "None"
Aliases == {NoAlias, "neo"}
Passwords == {"longpass1", "longpass2"}   \* what a login presents
NewPasswords == {"longpass2"}              \* what a registration chooses
Never == -1          \* a NULL timestamp

(* --------------------------- HTTP responses --------------------------- *)
Pending == [code |-> 0, detail |-> "pending"]
Ok200 == [code |-> 200, detail |-> "OK"]
Created201 == [code |-> 201, detail |-> "Created"]
InternalError == [code |-> 500, detail |-> "Internal Server Error"]
EmailTaken == [code |-> 400, detail |-> "Email already registered"]
AliasTaken == [code |-> 400, detail |-> "Alias already in use"]
InvalidCredentials == [code |-> 401, detail |-> "Invalid credentials"]
AccountDeleted == [code |-> 403, detail |-> "User account has been deleted"]
RefreshTokenInvalid == [code |-> 401, detail |-> "Invalid refresh token"]
RefreshTokenExpired == [code |-> 401, detail |-> "Refresh token expired"]
UserInactiveOrMissing == [code |-> 401, detail |-> "User inactive or does not exist"]
TokenInvalidOrExpired == [code |-> 401, detail |-> "Invalid or expired token"]
UserNotFound == [code |-> 401, detail |-> "User not found"]
AccountInactive == [code |-> 403, detail |-> "User account is inactive"]

(* ------------------------------ helpers ------------------------------- *)
\* a generator that returns the same string on every draw
generate_refresh_token_fixed(k) == <<"rt", 1>>

\* secrets.token_hex(32): the k-th draw, distinct from every earlier draw
generate_refresh_token(k) == <<"rt", k>>
NoSecret == <<"rt", 0>>

\* hashlib.sha256(token).hexdigest(): deterministic, injective, not the identity
hash_refresh_token(token) == <<"sha256", token>>

\* bcrypt.gensalt(): the k-th draw, distinct from every earlier draw
gensalt(k) == <<"salt", k>>

\* two passwords of 73 bytes that differ in their last byte only
LongPasswords == {"seventy-two bytes+1", "seventy-two bytes+2"}

\* bcrypt reads the first 72 bytes of a password
truncate(password) == IF password \in LongPasswords THEN "seventy-two bytes" ELSE password

\* what bcrypt does with a longer password depends on the installed release:
\* up to 4.x it drops the rest silently, from 5.0 on it raises ValueError
Builds == {"truncates", "raises"}
hashpw_raises(password, build) == build = "raises" /\ password \in LongPasswords

\* bcrypt.hashpw(password, salt): the digest embeds its salt
hash_password(password, salt) == <<"bcrypt", salt, truncate(password)>>

\* a stored value that is not a bcrypt encoding: checkpw raises "Invalid salt"
Malformed(hashed_password) == hashed_password[1] # "bcrypt"
verify_raises(password, hashed_password, build) ==
    Malformed(hashed_password) \/ hashpw_raises(password, build)

\* bcrypt.checkpw: recomputes with the digest's own salt and compares
verify_password(password, hashed_password) ==
    /\ ~Malformed(hashed_password)
    /\ hash_password(password, hashed_password[2]) = hashed_password

\* jwt.encode({"sub": ..., "exp": now + 60 minutes})
NoToken == [sub |-> 0, exp |-> 0]
create_access_token(sub, t) == [sub |-> sub, exp |-> t + access_token_expire_minutes]

\* Result.scalar_one_or_none(): None, the row, or MultipleResultsFound
scalar_one_or_none(rows) ==
    IF rows = {} THEN [n |-> "none", row |-> {}]
    ELSE IF Cardinality(rows) = 1 THEN [n |-> "one", row |-> rows]
    ELSE [n |-> "many", row |-> {}]
TheRow(r) == CHOOSE x \in r.row : TRUE

VARIABLES
    users,         \* table users: sequence of rows, id = position
    sessions,      \* table user_sessions: set of rows
    now,           \* the clock, in minutes
    ticks,         \* how often the clock has advanced
    minted,        \* number of session rows ever created
    started,       \* number of requests received
    calls,         \* per request slot: the handler running there and its locals
    accessTokens,  \* access credentials handed to clients so far
    issued,        \* refresh secrets handed to clients so far, with their owner
    outstanding,   \* secrets whose row existed when their owner was soft-deleted
    loggedOut,     \* secrets presented to logout while valid: the logouts the design lets succeed
    swept,         \* users whose logout-all completed with no login completed since, and
                   \* whether no login has inserted a row since that logout-all's DELETE
    chosen,        \* per user id, the password as it was typed when the account was made
    last           \* the step just taken and, if it ended a request, its response

vars == <<users, sessions, now, ticks, minted, started, calls, accessTokens, issued,
          outstanding, loggedOut, swept, chosen, last>>

Idle == [op |-> "none", pc |-> "idle", email |-> "", alias |-> NoAlias,
         password |-> "", salt |-> gensalt(0), uid |-> 0, access |-> NoToken,
         secret |-> NoSecret, sid |-> 0, victims |-> {}, raced |-> FALSE]

Event(op, status) ==
    [op |-> op, status |-> status, email |-> "", password |-> "",
     secret |-> NoSecret, uid |-> 0, access |-> NoToken, refresh |-> NoSecret,
     presented |-> NoToken, raced |-> FALSE, sid |-> 0, listing |-> {}]

\* models/user.py: a row of users with the column defaults of a new row
User(email, alias, password_hash, active) ==
    [email |-> email, alias |-> alias, password_hash |-> password_hash,
     is_active |-> active, is_deleted |-> FALSE, deleted_at |-> Never,
     last_login_at |-> Never]

\* models/user_sessions.py: a row of user_sessions
UserSession(id, user_id, token_hash, t) ==
    [id |-> id, user_id |-> user_id, refresh_token_hash |-> token_hash,
     created_at |-> t, expires_at |-> t + REFRESH_DAYS * 24 * 60,
     user_agent |-> "None", ip_address |-> "None"]

UsersByEmail(email) == {i \in DOMAIN users : users[i].email = email}
UsersByAlias(alias) == {i \in DOMAIN users : users[i].alias = alias}
UsersById(id) == {i \in DOMAIN users : i = id}

\* the store as it stands when the service is started: one earlier account,
\* enabled or disabled by the user directory, and no session
Init ==
    /\ \E active \in BOOLEAN :
         users = <<User("a@x.com", "neo", hash_password("longpass1", gensalt(0)), active)>>
    /\ sessions = {}
    /\ now = 0
    /\ ticks = 0
    /\ minted = 0
    /\ started = 0
    /\ calls = [p \in Procs |-> Idle]
    /\ accessTokens = {}
    /\ issued = {}
    /\ outstanding = {}
    /\ loggedOut = {}
    /\ swept = {}
    /\ chosen = <<"longpass1">>
    /\ last = Event("init", Pending)

Finish(p) == [calls EXCEPT ![p] = Idle]

\* the slot a new request runs in
FreeSlot ==
    IF \E q \in Procs : calls[q].pc = "idle"
    THEN CHOOSE q \in Procs : calls[q].pc = "idle" /\ \A r \in Procs : calls[r].pc = "idle" => q <= r
    ELSE 0

\* what a client can present as a refresh secret: each one it was handed, and a
\* string that no draw ever produced
GuessedSecret == <<"guess", 0>>
RefreshSecrets == {i.secret : i \in issued} \cup {GuessedSecret}

\* a request arrives
Receive ==
    /\ started < MaxCalls
    /\ started' = started + 1

(* ------------------------- POST /register ----------------------------- *)
\* a register whose SELECT by email passes over soft-deleted rows
register_user_reclaiming(p, email, alias, password) ==
    /\ Receive
    /\ p = FreeSlot
    /\ LET result_email == scalar_one_or_none(
                              {u \in UsersByEmail(email) : ~users[u].is_deleted})
       IN IF result_email.n # "none"
          THEN /\ calls' = calls
               /\ last' = [Event("register", IF result_email.n = "one"
                                             THEN EmailTaken ELSE InternalError)
                             EXCEPT !.email = email]
          ELSE /\ calls' = [calls EXCEPT ![p] =
                              [Idle EXCEPT !.op = "register", !.pc = "reg_alias",
                                           !.email = email, !.alias = alias,
                                           !.password = password, !.salt = gensalt(started + 1)]]
               /\ last' = Event("register", Pending)
    /\ UNCHANGED <<users, sessions, now, ticks, minted, accessTokens, issued,
                   outstanding, loggedOut, swept, chosen>>

\* auth.py 32-42: open the request, SELECT by email
register_user(p, email, alias, password) ==
    /\ Receive
    /\ p = FreeSlot
    /\ LET result_email == scalar_one_or_none(UsersByEmail(email))
       IN IF result_email.n # "none"
          THEN /\ calls' = calls
               /\ last' = [Event("register", IF result_email.n = "one"
                                             THEN EmailTaken ELSE InternalError)
                             EXCEPT !.email = email]
          ELSE /\ calls' = [calls EXCEPT ![p] =
                              [Idle EXCEPT !.op = "register", !.pc = "reg_alias",
                                           !.email = email, !.alias = alias,
                                           !.password = password, !.salt = gensalt(started + 1)]]
               /\ last' = Event("register", Pending)
    /\ UNCHANGED <<users, sessions, now, ticks, minted, accessTokens, issued,
                   outstanding, loggedOut, swept, chosen>>

\* auth.py 45: "if payload.alias:" holds for a string that is not empty
Truthy(alias) == alias \notin {NoAlias, ""}

\* auth.py 44-53: SELECT by alias, when the alias is truthy
register_check_alias(p) ==
    /\ calls[p].pc = "reg_alias"
    /\ LET c == calls[p]
           result_alias == scalar_one_or_none(UsersByAlias(c.alias))
       IN IF Truthy(c.alias) /\ result_alias.n # "none"
          THEN /\ calls' = Finish(p)
               /\ last' = [Event("register", IF result_alias.n = "one"
                                             THEN AliasTaken ELSE InternalError)
                             EXCEPT !.email = c.email, !.raced = c.raced]
          ELSE /\ calls' = [calls EXCEPT ![p].pc = "reg_insert"]
               /\ last' = Event("register", Pending)
    /\ UNCHANGED <<started, users, sessions, now, ticks, minted, accessTokens, issued,
                   outstanding, loggedOut, swept, chosen>>

\* user.py 10-13: the unique constraints on email and on a non-NULL alias
UniqueViolation(email, alias) ==
    \/ UsersByEmail(email) # {}
    \/ (alias # NoAlias /\ UsersByAlias(alias) # {})

\* auth.py 55-79: hash, INSERT, COMMIT; an IntegrityError is not caught
register_insert(p) ==
    /\ calls[p].pc = "reg_insert"
    /\ LET c == calls[p]
           hashed_pw == hash_password(c.password, c.salt)
           new_user == User(c.email, c.alias, hashed_pw, TRUE)
           error == [Event("register", InternalError)
                       EXCEPT !.email = c.email, !.raced = c.raced]
       IN \/ /\ \E build \in Builds : hashpw_raises(c.password, build)
             /\ users' = users /\ chosen' = chosen
             /\ calls' = Finish(p)
             /\ last' = error
          \/ /\ \E build \in Builds : ~hashpw_raises(c.password, build)
             /\ IF UniqueViolation(c.email, c.alias)
                THEN /\ users' = users /\ chosen' = chosen
                     /\ calls' = Finish(p)
                     /\ last' = error
                ELSE /\ users' = Append(users, new_user)
                     /\ chosen' = Append(chosen, c.password)
                     /\ calls' = [q \in Procs |->
                                    IF q = p THEN Idle
                                    ELSE IF calls[q].op = "register"
                                            /\ calls[q].email = c.email
                                         THEN [calls[q] EXCEPT !.raced = TRUE]
                                         ELSE calls[q]]
                     /\ last' = [Event("register", Created201)
                                   EXCEPT !.email = c.email, !.uid = Len(users) + 1,
                                          !.raced = c.raced]
    /\ UNCHANGED <<started, sessions, now, ticks, minted, accessTokens, issued,
                   outstanding, loggedOut, swept>>

(* --------------------------- POST /login ------------------------------ *)
\* a login without the gate on is_deleted
login_ungated(p, email, password) ==
    /\ Receive
    /\ p = FreeSlot
    /\ LET result == scalar_one_or_none(UsersByEmail(email))
           ev == [Event("login", Pending) EXCEPT !.email = email, !.password = password]
       IN IF result.n # "one"
          THEN /\ calls' = calls
               /\ last' = [ev EXCEPT !.status = InvalidCredentials]
          ELSE LET id == TheRow(result)
               IN IF ~verify_password(password, users[id].password_hash)
                  THEN /\ calls' = calls
                       /\ last' = [ev EXCEPT !.status = InvalidCredentials, !.uid = id]
                  ELSE /\ calls' = [calls EXCEPT ![p] =
                                      [Idle EXCEPT !.op = "login", !.pc = "login_session",
                                                   !.uid = id,
                                                   !.access = create_access_token(id, now)]]
                       /\ last' = [ev EXCEPT !.uid = id]
    /\ UNCHANGED <<users, sessions, now, ticks, minted, accessTokens, issued,
                   outstanding, loggedOut, swept, chosen>>

\* a login that tells an unknown email from a wrong password
login_revealing(p, email, password) ==
    /\ Receive
    /\ p = FreeSlot
    /\ LET result == scalar_one_or_none(UsersByEmail(email))
           ev == [Event("login", Pending) EXCEPT !.email = email, !.password = password]
       IN IF result.n # "one"
          THEN /\ calls' = calls
               /\ last' = [ev EXCEPT !.status = [code |-> 401, detail |-> "Unknown email"]]
          ELSE LET id == TheRow(result)
                   user == users[id]
               IN IF user.is_deleted
                  THEN /\ calls' = calls
                       /\ last' = [ev EXCEPT !.status = AccountDeleted, !.uid = id]
                  ELSE IF ~verify_password(password, user.password_hash)
                  THEN /\ calls' = calls
                       /\ last' = [ev EXCEPT !.status = InvalidCredentials, !.uid = id]
                  ELSE /\ calls' = [calls EXCEPT ![p] =
                                      [Idle EXCEPT !.op = "login", !.pc = "login_session",
                                                   !.uid = id,
                                                   !.access = create_access_token(id, now)]]
                       /\ last' = [ev EXCEPT !.uid = id]
    /\ UNCHANGED <<users, sessions, now, ticks, minted, accessTokens, issued,
                   outstanding, loggedOut, swept, chosen>>

\* a login that verifies the password before it looks at is_deleted
login_password_first(p, email, password) ==
    /\ Receive
    /\ p = FreeSlot
    /\ LET result == scalar_one_or_none(UsersByEmail(email))
           ev == [Event("login", Pending) EXCEPT !.email = email, !.password = password]
       IN IF result.n = "many"
          THEN /\ calls' = calls
               /\ last' = [ev EXCEPT !.status = InternalError]
          ELSE IF result.n = "none"
          THEN /\ calls' = calls
               /\ last' = [ev EXCEPT !.status = InvalidCredentials]
          ELSE LET id == TheRow(result)
                   user == users[id]
               IN IF ~verify_password(password, user.password_hash)
                  THEN /\ calls' = calls
                       /\ last' = [ev EXCEPT !.status = InvalidCredentials, !.uid = id]
                  ELSE IF user.is_deleted
                  THEN /\ calls' = calls
                       /\ last' = [ev EXCEPT !.status = AccountDeleted, !.uid = id]
                  ELSE /\ calls' = [calls EXCEPT ![p] =
                           [Idle EXCEPT !.op = "login", !.pc = "login_session",
                                        !.uid = id,
                                        !.access = create_access_token(id, now)]]
                       /\ last' = [ev EXCEPT !.uid = id]
    /\ UNCHANGED <<users, sessions, now, ticks, minted, accessTokens, issued,
                   outstanding, loggedOut, swept, chosen>>

\* a login that turns an inactive account away
login_active_only(p, email, password) ==
    /\ Receive
    /\ p = FreeSlot
    /\ LET result == scalar_one_or_none(UsersByEmail(email))
           ev == [Event("login", Pending) EXCEPT !.email = email, !.password = password]
       IN IF result.n = "many"
          THEN /\ calls' = calls
               /\ last' = [ev EXCEPT !.status = InternalError]
          ELSE IF result.n = "none"
          THEN /\ calls' = calls
               /\ last' = [ev EXCEPT !.status = InvalidCredentials]
          ELSE LET id == TheRow(result)
                   user == users[id]
               IN IF user.is_deleted
                  THEN /\ calls' = calls
                       /\ last' = [ev EXCEPT !.status = AccountDeleted, !.uid = id]
                  ELSE IF ~user.is_active
                  THEN /\ calls' = calls
                       /\ last' = [ev EXCEPT !.status = AccountInactive, !.uid = id]
                  ELSE \/ /\ \E build \in Builds :
                                verify_raises(password, user.password_hash, build)
                          /\ calls' = calls
                          /\ last' = [ev EXCEPT !.status = InternalError, !.uid = id]
                       \/ /\ \E build \in Builds :
                                ~verify_raises(password, user.password_hash, build)
                          /\ IF ~verify_password(password, user.password_hash)
                             THEN /\ calls' = calls
                                  /\ last' = [ev EXCEPT !.status = InvalidCredentials,
                                                        !.uid = id]
                             ELSE /\ calls' = [calls EXCEPT ![p] =
                                      [Idle EXCEPT !.op = "login", !.pc = "login_session",
                                                   !.uid = id,
                                                   !.access = create_access_token(id, now)]]
                                  /\ last' = [ev EXCEPT !.uid = id]
    /\ UNCHANGED <<users, sessions, now, ticks, minted, accessTokens, issued,
                   outstanding, loggedOut, swept, chosen>>

\* auth.py 87-121: SELECT by email, the deleted gate, the password, the JWT
login_user(p, email, password) ==
    /\ Receive
    /\ p = FreeSlot
    /\ LET result == scalar_one_or_none(UsersByEmail(email))
           ev == [Event("login", Pending) EXCEPT !.email = email, !.password = password]
       IN IF result.n = "many"
          THEN /\ calls' = calls
               /\ last' = [ev EXCEPT !.status = InternalError]
          ELSE IF result.n = "none"
          THEN /\ calls' = calls
               /\ last' = [ev EXCEPT !.status = InvalidCredentials]
          ELSE LET id == TheRow(result)
                   user == users[id]
               IN IF user.is_deleted
                  THEN /\ calls' = calls
                       /\ last' = [ev EXCEPT !.status = AccountDeleted, !.uid = id]
                  ELSE \/ /\ \E build \in Builds :
                                verify_raises(password, user.password_hash, build)
                          /\ calls' = calls
                          /\ last' = [ev EXCEPT !.status = InternalError, !.uid = id]
                       \/ /\ \E build \in Builds :
                                ~verify_raises(password, user.password_hash, build)
                          /\ IF ~verify_password(password, user.password_hash)
                             THEN /\ calls' = calls
                                  /\ last' = [ev EXCEPT !.status = InvalidCredentials,
                                                        !.uid = id]
                             ELSE /\ calls' = [calls EXCEPT ![p] =
                                      [Idle EXCEPT !.op = "login", !.pc = "login_session",
                                                   !.uid = id,
                                                   !.access = create_access_token(id, now)]]
                                  /\ last' = [ev EXCEPT !.uid = id]
    /\ UNCHANGED <<users, sessions, now, ticks, minted, accessTokens, issued,
                   outstanding, loggedOut, swept, chosen>>

\* a session creation that stores the secret as drawn
create_refresh_token_session_raw(p) ==
    /\ calls[p].pc = "login_session"
    /\ LET c == calls[p]
           raw_token == generate_refresh_token(minted + 1)
           new_session == UserSession(minted + 1, c.uid, raw_token, now)
       IN /\ sessions' = sessions \cup {new_session}
          /\ minted' = minted + 1
          /\ calls' = [calls EXCEPT ![p].pc = "login_commit", ![p].secret = raw_token]
          /\ swept' = {w \in swept : w.uid # c.uid}
          /\ last' = Event("login", Pending)
    /\ UNCHANGED <<started, users, now, ticks, accessTokens, issued, outstanding, loggedOut, chosen>>

\* refresh.py 44-75: draw the secret, INSERT its digest, COMMIT (a transaction of its own)
create_refresh_token_session(p) ==
    /\ calls[p].pc = "login_session"
    /\ LET c == calls[p]
           raw_token == generate_refresh_token(minted + 1)
           token_hash == hash_refresh_token(raw_token)
           new_session == UserSession(minted + 1, c.uid, token_hash, now)
       IN /\ sessions' = sessions \cup {new_session}
          /\ minted' = minted + 1
          /\ calls' = [q \in Procs |->
                         IF q = p
                         THEN [c EXCEPT !.pc = "login_commit", !.secret = raw_token]
                         ELSE IF calls[q].pc = "la_commit" /\ calls[q].uid = c.uid
                              THEN [calls[q] EXCEPT !.raced = TRUE]
                              ELSE calls[q]]
          /\ swept' = {w \in swept : w.uid # c.uid}
                         \cup {[w EXCEPT !.strict = FALSE] : w \in {v \in swept : v.uid = c.uid}}
          /\ last' = Event("login", Pending)
    /\ UNCHANGED <<started, users, now, ticks, accessTokens, issued, outstanding, loggedOut, chosen>>

\* auth.py 131-143: UPDATE users SET last_login_at, COMMIT, return both tokens
login_commit(p) ==
    /\ calls[p].pc = "login_commit"
    /\ LET c == calls[p]
       IN /\ users' = [users EXCEPT ![c.uid].last_login_at = now]
          /\ accessTokens' = accessTokens \cup {c.access}
          /\ issued' = issued \cup {[secret |-> c.secret, uid |-> c.uid]}
          /\ swept' = {w \in swept : w.uid # c.uid}
          /\ calls' = Finish(p)
          /\ last' = [Event("login", Ok200)
                        EXCEPT !.uid = c.uid, !.access = c.access, !.refresh = c.secret]
    /\ UNCHANGED <<started, sessions, now, ticks, minted, outstanding, loggedOut, chosen>>

\* auth.py 134: the COMMIT of last_login_at raises (the connection to the store
\* is lost); the session row was committed by create_refresh_token_session
login_commit_fails(p) ==
    /\ calls[p].pc = "login_commit"
    /\ calls' = Finish(p)
    /\ last' = [Event("login", InternalError) EXCEPT !.uid = calls[p].uid]
    /\ UNCHANGED <<started, users, sessions, now, ticks, minted, accessTokens, issued,
                   outstanding, loggedOut, swept, chosen>>

(* ---------------------- validate_refresh_token ------------------------ *)
\* a secret the design holds valid: its row exists and is unexpired, its owner
\* exists, is active and is not soft-deleted
Live(secret) ==
    \E s \in sessions :
        /\ s.refresh_token_hash = hash_refresh_token(secret)
        /\ s.user_id \in DOMAIN users
        /\ ~users[s.user_id].is_deleted
        /\ users[s.user_id].is_active
        /\ now <= s.expires_at

\* a validate that returns every row it finds, with none of the checks
validate_unchecked(refresh_token) ==
    LET stored == {s \in sessions : s.refresh_token_hash = hash_refresh_token(refresh_token)}
    IN IF stored = {} THEN [status |-> RefreshTokenInvalid, session |-> {}]
       ELSE [status |-> Ok200, session |-> stored]

\* a validate that reads the row before asking whether there is one
validate_unguarded(refresh_token) ==
    LET stored == {s \in sessions : s.refresh_token_hash = hash_refresh_token(refresh_token)}
    IN [status |-> InternalError, session |-> stored \ stored]

\* refresh.py 105 reads the local name user, which only line 123 assigns
Unassigned == "unassigned"
user_at_105 == Unassigned

\* refresh.py 78-132
validate_refresh_token(refresh_token) ==
    LET token_hash == hash_refresh_token(refresh_token)
        stored == scalar_one_or_none({s \in sessions : s.refresh_token_hash = token_hash})
        fail(status) == [status |-> status, session |-> {}]
    IN IF stored.n = "many" THEN fail(InternalError)
       ELSE IF stored.n = "none" THEN fail(RefreshTokenInvalid)
       ELSE LET stored_session == TheRow(stored)
                user == scalar_one_or_none(UsersById(stored_session.user_id))
            IN IF user_at_105 = Unassigned THEN fail(InternalError)  \* UnboundLocalError
               ELSE IF user_at_105.is_deleted THEN fail(AccountDeleted)
               ELSE IF stored_session.expires_at < now THEN fail(RefreshTokenExpired)
               ELSE IF user.n = "none" \/ ~users[TheRow(user)].is_active
                    THEN fail(UserInactiveOrMissing)
               ELSE [status |-> Ok200, session |-> {stored_session}]

(* ------------------------ POST /refresh-token ------------------------- *)
\* a refresh that consumes the presented secret's row
refresh_rotating(refresh_token) ==
    /\ Receive
    /\ sessions' = {s \in sessions : s.refresh_token_hash # hash_refresh_token(refresh_token)}
    /\ last' = [Event("refresh", validate_refresh_token(refresh_token).status)
                  EXCEPT !.secret = refresh_token]
    /\ UNCHANGED <<users, now, ticks, minted, calls, accessTokens, issued, outstanding,
                   loggedOut, swept, chosen>>

\* auth.py 158-182
refresh_access_token(refresh_token) ==
    /\ Receive
    /\ LET v == validate_refresh_token(refresh_token)
           ev == [Event("refresh", v.status) EXCEPT !.secret = refresh_token]
       IN IF v.status # Ok200
          THEN /\ accessTokens' = accessTokens
               /\ last' = ev
          ELSE LET stored_session == CHOOSE s \in v.session : TRUE
                   new_access_token == create_access_token(stored_session.user_id, now)
               IN /\ accessTokens' = accessTokens \cup {new_access_token}
                  /\ last' = [ev EXCEPT !.access = new_access_token,
                                        !.uid = stored_session.user_id]
    /\ UNCHANGED <<users, sessions, now, ticks, minted, calls, issued, outstanding,
                   loggedOut, swept, chosen>>

(* --------------------------- POST /logout ----------------------------- *)
\* auth.py 185-208: validate, DELETE the row by its primary key, COMMIT
logout_user(refresh_token) ==
    /\ Receive
    /\ loggedOut' = IF Live(refresh_token) THEN loggedOut \cup {refresh_token} ELSE loggedOut
    /\ LET v == validate_refresh_token(refresh_token)
           ev == [Event("logout", v.status) EXCEPT !.secret = refresh_token]
       IN IF v.status # Ok200
          THEN /\ sessions' = sessions
               /\ last' = ev
          ELSE LET stored_session == CHOOSE s \in v.session : TRUE
               IN /\ sessions' = {s \in sessions : s.id # stored_session.id}
                  /\ last' = [ev EXCEPT !.uid = stored_session.user_id]
    /\ UNCHANGED <<users, now, ticks, minted, calls, accessTokens, issued, outstanding,
                   swept, chosen>>

(* -------------------------- get_current_user -------------------------- *)
\* jwt.py 41-59: the signature holds for every issued credential; exp must lie ahead
decode_access_token(token) ==
    IF token.exp <= now THEN [ok |-> FALSE, sub |-> 0] ELSE [ok |-> TRUE, sub |-> token.sub]

\* a dependency that trusts the credential's subject once the row is found
get_current_user_trusting(token) ==
    LET payload == decode_access_token(token)
        user == scalar_one_or_none(UsersById(payload.sub))
    IN IF ~payload.ok THEN [status |-> TokenInvalidOrExpired, uid |-> 0]
       ELSE IF user.n = "none" THEN [status |-> UserNotFound, uid |-> 0]
       ELSE [status |-> Ok200, uid |-> TheRow(user)]

\* a dependency that also asks for a stored session of the subject
get_current_user_session_bound(token) ==
    LET payload == decode_access_token(token)
        user == scalar_one_or_none(UsersById(payload.sub))
        fail(status) == [status |-> status, uid |-> 0]
    IN IF ~payload.ok THEN fail(TokenInvalidOrExpired)
       ELSE IF user.n = "none" THEN fail(UserNotFound)
       ELSE IF ~users[TheRow(user)].is_active THEN fail(AccountInactive)
       ELSE IF users[TheRow(user)].is_deleted THEN fail(AccountDeleted)
       ELSE IF {s \in sessions : s.user_id = TheRow(user)} = {}
            THEN fail(TokenInvalidOrExpired)
       ELSE [status |-> Ok200, uid |-> TheRow(user)]

\* dependencies.py 30-118
get_current_user(token) ==
    LET payload == decode_access_token(token)
        user == scalar_one_or_none(UsersById(payload.sub))
        fail(status) == [status |-> status, uid |-> 0]
    IN IF ~payload.ok THEN fail(TokenInvalidOrExpired)
       ELSE IF user.n = "none" THEN fail(UserNotFound)
       ELSE IF ~users[TheRow(user)].is_active THEN fail(AccountInactive)
       ELSE IF users[TheRow(user)].is_deleted THEN fail(AccountDeleted)
       ELSE [status |-> Ok200, uid |-> TheRow(user)]

\* the dependency runs, in a database session of its own, before the handler's body
Authenticate(p, op, pc, token, sid) ==
    /\ Receive
    /\ p = FreeSlot
    /\ LET a == get_current_user(token)
           ev == [Event(op, a.status) EXCEPT !.presented = token, !.sid = sid]
       IN IF a.status # Ok200
          THEN /\ calls' = calls
               /\ last' = ev
          ELSE /\ calls' = [calls EXCEPT ![p] =
                              [Idle EXCEPT !.op = op, !.pc = pc, !.uid = a.uid,
                                           !.access = token, !.sid = sid]]
               /\ last' = [ev EXCEPT !.status = Pending, !.uid = a.uid]
    /\ UNCHANGED <<users, sessions, now, ticks, minted, accessTokens, issued,
                   outstanding, loggedOut, swept, chosen>>

SessionsOf(uid) == {s \in sessions : s.user_id = uid}
SecretOf(s) == s.refresh_token_hash[2]

(* ------------------------------ GET /me ------------------------------- *)
\* auth.py 147-155
get_my_profile(token) ==
    /\ Receive
    /\ LET a == get_current_user(token)
       IN last' = [Event("me", a.status) EXCEPT !.presented = token, !.uid = a.uid]
    /\ UNCHANGED <<users, sessions, now, ticks, minted, calls, accessTokens, issued,
                   outstanding, loggedOut, swept, chosen>>

(* ------------------------- POST /logout-all --------------------------- *)
logout_user_from_all_devices(p, token) == Authenticate(p, "logout_all", "la_exec", token, 0)

\* auth.py 225-232: DELETE ... WHERE user_id = :id, inside the open transaction
logout_all_exec(p) ==
    /\ calls[p].pc = "la_exec"
    /\ calls' = [calls EXCEPT ![p].pc = "la_commit",
                              ![p].victims = {s.id : s \in SessionsOf(calls[p].uid)}]
    /\ last' = Event("logout_all", Pending)
    /\ UNCHANGED <<started, users, sessions, now, ticks, minted, accessTokens, issued,
                   outstanding, loggedOut, swept, chosen>>

\* a logout-all that answers without committing its DELETE
logout_all_uncommitted(p) ==
    /\ calls[p].pc = "la_commit"
    /\ swept' = {w \in swept : w.uid # calls[p].uid}
                   \cup {[uid |-> calls[p].uid, strict |-> ~calls[p].raced]}
    /\ calls' = Finish(p)
    /\ last' = [Event("logout_all", Ok200)
                  EXCEPT !.uid = calls[p].uid, !.presented = calls[p].access]
    /\ UNCHANGED <<started, users, sessions, now, ticks, minted, accessTokens, issued,
                   outstanding, loggedOut, chosen>>

\* auth.py 234-238: COMMIT
logout_all_commit(p) ==
    /\ calls[p].pc = "la_commit"
    /\ sessions' = {s \in sessions : s.id \notin calls[p].victims}
    /\ swept' = {w \in swept : w.uid # calls[p].uid}
                   \cup {[uid |-> calls[p].uid, strict |-> ~calls[p].raced]}
    /\ calls' = Finish(p)
    /\ last' = [Event("logout_all", Ok200)
                  EXCEPT !.uid = calls[p].uid, !.presented = calls[p].access]
    /\ UNCHANGED <<started, users, now, ticks, minted, accessTokens, issued, outstanding,
                   loggedOut, chosen>>

(* --------------------------- GET /sessions ---------------------------- *)
list_active_sessions(p, token) == Authenticate(p, "list", "ls_select", token, 0)

\* a listing that returns the rows as they are stored
list_select_rows(p) ==
    /\ calls[p].pc = "ls_select"
    /\ last' = [Event("list", Ok200)
                  EXCEPT !.uid = calls[p].uid, !.presented = calls[p].access,
                         !.listing = SessionsOf(calls[p].uid)]
    /\ calls' = Finish(p)
    /\ UNCHANGED <<started, users, sessions, now, ticks, minted, accessTokens, issued,
                   outstanding, loggedOut, swept, chosen>>

\* a listing that leaves out the rows past their expiry
list_select_unexpired(p) ==
    /\ calls[p].pc = "ls_select"
    /\ LET serialized == {[id |-> s.id, created_at |-> s.created_at,
                           expires_at |-> s.expires_at, user_agent |-> s.user_agent,
                           ip_address |-> s.ip_address] :
                             s \in {r \in SessionsOf(calls[p].uid) : now <= r.expires_at}}
       IN last' = [Event("list", Ok200)
                     EXCEPT !.uid = calls[p].uid, !.presented = calls[p].access,
                            !.listing = serialized]
    /\ calls' = Finish(p)
    /\ UNCHANGED <<started, users, sessions, now, ticks, minted, accessTokens, issued,
                   outstanding, loggedOut, swept, chosen>>

\* auth.py 254-275
list_select(p) ==
    /\ calls[p].pc = "ls_select"
    /\ LET serialized == {[id |-> s.id, created_at |-> s.created_at,
                           expires_at |-> s.expires_at, user_agent |-> s.user_agent,
                           ip_address |-> s.ip_address] : s \in SessionsOf(calls[p].uid)}
       IN last' = [Event("list", Ok200)
                     EXCEPT !.uid = calls[p].uid, !.presented = calls[p].access,
                            !.listing = serialized]
    /\ calls' = Finish(p)
    /\ UNCHANGED <<started, users, sessions, now, ticks, minted, accessTokens, issued,
                   outstanding, loggedOut, swept, chosen>>

(* ---------------------- DELETE /sessions/{id} ------------------------- *)
SessionNotFound == [code |-> 404, detail |-> "Session not found"]
SessionForbidden == [code |-> 403, detail |-> "You are not allowed to delete this session"]

delete_session(p, token, session_id) == Authenticate(p, "delete_session", "ds_select", token, session_id)

\* a lookup that lets any authenticated user delete any row it finds
delete_session_select_any(p) ==
    /\ calls[p].pc = "ds_select"
    /\ LET c == calls[p]
           ev == [Event("delete_session", Pending)
                    EXCEPT !.uid = c.uid, !.sid = c.sid, !.presented = c.access]
       IN IF {s \in sessions : s.id = c.sid} = {}
          THEN /\ calls' = Finish(p)
               /\ last' = [ev EXCEPT !.status = SessionNotFound]
          ELSE /\ calls' = [calls EXCEPT ![p].pc = "ds_delete"]
               /\ last' = ev
    /\ UNCHANGED <<started, users, sessions, now, ticks, minted, accessTokens, issued,
                   outstanding, loggedOut, swept, chosen>>

\* auth.py 294-314: SELECT by id, then the ownership check
delete_session_select(p) ==
    /\ calls[p].pc = "ds_select"
    /\ LET c == calls[p]
           stored == scalar_one_or_none({s \in sessions : s.id = c.sid})
           ev == [Event("delete_session", Pending)
                    EXCEPT !.uid = c.uid, !.sid = c.sid, !.presented = c.access]
       IN IF stored.n = "none"
          THEN /\ calls' = Finish(p)
               /\ last' = [ev EXCEPT !.status = SessionNotFound]
          ELSE IF stored.n = "many"
          THEN /\ calls' = Finish(p)
               /\ last' = [ev EXCEPT !.status = InternalError]
          ELSE IF TheRow(stored).user_id # c.uid
          THEN /\ calls' = Finish(p)
               /\ last' = [ev EXCEPT !.status = SessionForbidden]
          ELSE /\ calls' = [calls EXCEPT ![p].pc = "ds_delete"]
               /\ last' = ev
    /\ UNCHANGED <<started, users, sessions, now, ticks, minted, accessTokens, issued,
                   outstanding, loggedOut, swept, chosen>>

\* a DELETE that treats a row already gone as stale data and fails
delete_session_delete_strict(p) ==
    /\ calls[p].pc = "ds_delete"
    /\ sessions' = {s \in sessions : s.id # calls[p].sid}
    /\ calls' = Finish(p)
    /\ last' = [Event("delete_session",
                        IF \E s \in sessions : s.id = calls[p].sid
                        THEN Ok200 ELSE InternalError)
                  EXCEPT !.uid = calls[p].uid, !.sid = calls[p].sid,
                         !.presented = calls[p].access,
                         !.raced = ~\E s \in sessions : s.id = calls[p].sid]
    /\ UNCHANGED <<started, users, now, ticks, minted, accessTokens, issued, outstanding, loggedOut, swept,
                   chosen>>

\* auth.py 316-321: DELETE by primary key, COMMIT; a row already gone only warns
delete_session_delete(p) ==
    /\ calls[p].pc = "ds_delete"
    /\ sessions' = {s \in sessions : s.id # calls[p].sid}
    /\ calls' = Finish(p)
    /\ last' = [Event("delete_session", Ok200)
                  EXCEPT !.uid = calls[p].uid, !.sid = calls[p].sid,
                         !.presented = calls[p].access,
                         !.raced = ~\E s \in sessions : s.id = calls[p].sid]
    /\ UNCHANGED <<started, users, now, ticks, minted, accessTokens, issued, outstanding, loggedOut, swept,
                   chosen>>

(* ----------------------- DELETE /delete-account ----------------------- *)
delete_account(p, token) == Authenticate(p, "delete_account", "da_exec", token, 0)

\* auth.py 332-352: mark the loaded user (not flushed yet), DELETE its sessions
delete_account_exec(p) ==
    /\ calls[p].pc = "da_exec"
    /\ calls' = [calls EXCEPT ![p].pc = "da_commit",
                              ![p].victims = {s.id : s \in SessionsOf(calls[p].uid)}]
    /\ last' = Event("delete_account", Pending)
    /\ UNCHANGED <<started, users, sessions, now, ticks, minted, accessTokens, issued,
                   outstanding, loggedOut, swept, chosen>>

\* a commit that makes the soft-delete visible and leaves the session rows
delete_account_commit_flag_only(p) ==
    /\ calls[p].pc = "da_commit"
    /\ LET c == calls[p]
       IN /\ users' = [users EXCEPT ![c.uid].is_deleted = TRUE, ![c.uid].deleted_at = now]
          /\ calls' = Finish(p)
          /\ last' = [Event("delete_account", Ok200)
                        EXCEPT !.uid = c.uid, !.presented = c.access]
    /\ UNCHANGED <<started, sessions, now, ticks, minted, accessTokens, issued, outstanding,
                   loggedOut, swept, chosen>>

\* auth.py 354-357: COMMIT flushes the UPDATE of is_deleted and deleted_at
delete_account_commit(p) ==
    /\ calls[p].pc = "da_commit"
    /\ LET c == calls[p]
       IN /\ users' = [users EXCEPT ![c.uid].is_deleted = TRUE, ![c.uid].deleted_at = now]
          /\ sessions' = {s \in sessions : s.id \notin c.victims}
          /\ outstanding' = outstanding \cup
                {i.secret : i \in {j \in issued : j.uid = c.uid /\
                                     \E s \in sessions : SecretOf(s) = j.secret}}
          /\ calls' = Finish(p)
          /\ last' = [Event("delete_account", Ok200)
                        EXCEPT !.uid = c.uid, !.presented = c.access]
    /\ UNCHANGED <<started, now, ticks, minted, accessTokens, issued, loggedOut, swept, chosen>>

\* auth.py 354: the COMMIT raises; the transaction, UPDATE and DELETE, rolls back
delete_account_commit_fails(p) ==
    /\ calls[p].pc = "da_commit"
    /\ calls' = Finish(p)
    /\ last' = [Event("delete_account", InternalError)
                  EXCEPT !.uid = calls[p].uid, !.presented = calls[p].access]
    /\ UNCHANGED <<started, users, sessions, now, ticks, minted, accessTokens, issued,
                   outstanding, loggedOut, swept, chosen>>

(* ------------------------------ the clock ----------------------------- *)
TickSteps == {access_token_expire_minutes, REFRESH_DAYS * 24 * 60,
              REFRESH_DAYS * 24 * 60 + access_token_expire_minutes}

\* the clock jumps by an hour, by thirty days or by both: no request runs that long
Tick(d) ==
    /\ ticks < MaxTicks
    /\ \A p \in Procs : calls[p].pc = "idle"
    /\ now' = now + d
    /\ ticks' = ticks + 1
    /\ last' = Event("tick", Pending)
    /\ UNCHANGED <<started, users, sessions, minted, calls, accessTokens, issued, outstanding,
                   loggedOut, swept, chosen>>

Next ==
    \/ \E p \in Procs, email \in Emails, alias \in Aliases, password \in NewPasswords :
          register_user(p, email, alias, password)
    \/ \E p \in Procs : register_check_alias(p)
    \/ \E p \in Procs : register_insert(p)
    \/ \E p \in Procs, email \in Emails, password \in Passwords : login_user(p, email, password)
    \/ \E p \in Procs : create_refresh_token_session(p)
    \/ \E p \in Procs : login_commit(p)
    \/ \E t \in RefreshSecrets : refresh_access_token(t)
    \/ \E t \in RefreshSecrets : logout_user(t)
    \/ \E t \in accessTokens : get_my_profile(t)
    \/ \E p \in Procs, t \in accessTokens : logout_user_from_all_devices(p, t)
    \/ \E p \in Procs : logout_all_exec(p)
    \/ \E p \in Procs : logout_all_commit(p)
    \/ \E p \in Procs, t \in accessTokens : list_active_sessions(p, t)
    \/ \E p \in Procs : list_select(p)
    \/ \E p \in Procs, t \in accessTokens, sid \in 1..(minted + 1) : delete_session(p, t, sid)
    \/ \E p \in Procs : delete_session_select(p)
    \/ \E p \in Procs : delete_session_delete(p)
    \/ \E p \in Procs, t \in accessTokens : delete_account(p, t)
    \/ \E p \in Procs : delete_account_exec(p)
    \/ \E p \in Procs : delete_account_commit(p)
    \/ \E d \in TickSteps : Tick(d)

Spec == Init /\ [][Next]_vars

(* ------------------------- registration alone ------------------------- *)
\* what a registration can present: schemas/user.py accepts every email and,
\* as alias, None or any string of at most 50 characters, the empty one included
RegisterEmails == Emails \cup {"c@x.com"}
RegisterAliases == Aliases \cup {""}

NextRegister ==
    \/ \E p \in Procs, email \in RegisterEmails, alias \in RegisterAliases,
          password \in NewPasswords : register_user(p, email, alias, password)
    \/ \E p \in Procs : register_check_alias(p)
    \/ \E p \in Procs : register_insert(p)

SpecRegister == Init /\ [][NextRegister]_vars

(* ------------------- a store whose COMMIT can fail -------------------- *)
\* login and delete-account, the two handlers that write in more than one
\* step, with the failure of their last COMMIT; list-sessions observes
NextFaults ==
    \/ \E p \in Procs, email \in Emails, password \in Passwords : login_user(p, email, password)
    \/ \E p \in Procs : create_refresh_token_session(p)
    \/ \E p \in Procs : login_commit(p)
    \/ \E p \in Procs : login_commit_fails(p)
    \/ \E p \in Procs, t \in accessTokens : list_active_sessions(p, t)
    \/ \E p \in Procs : list_select(p)
    \/ \E p \in Procs, t \in accessTokens : delete_account(p, t)
    \/ \E p \in Procs : delete_account_exec(p)
    \/ \E p \in Procs : delete_account_commit(p)
    \/ \E p \in Procs : delete_account_commit_fails(p)
    \/ \E d \in TickSteps : Tick(d)

SpecFaults == Init /\ [][NextFaults]_vars

(* --------------- two accounts and the session handlers ---------------- *)
\* the store with two enabled accounts registered earlier and no session
InitSessions ==
    /\ users = <<User("a@x.com", "neo", hash_password("longpass1", gensalt(0)), TRUE),
                 User("b@x.com", NoAlias, hash_password("longpass2", gensalt(0)), TRUE)>>
    /\ sessions = {}
    /\ now = 0
    /\ ticks = 0
    /\ minted = 0
    /\ started = 0
    /\ calls = [p \in Procs |-> Idle]
    /\ accessTokens = {}
    /\ issued = {}
    /\ outstanding = {}
    /\ loggedOut = {}
    /\ swept = {}
    /\ chosen = <<"longpass1", "longpass2">>
    /\ last = Event("init", Pending)

\* login and the handlers behind get_current_user
NextSessions ==
    \/ \E p \in Procs, email \in Emails, password \in Passwords : login_user(p, email, password)
    \/ \E p \in Procs : create_refresh_token_session(p)
    \/ \E p \in Procs : login_commit(p)
    \/ \E t \in accessTokens : get_my_profile(t)
    \/ \E p \in Procs, t \in accessTokens : logout_user_from_all_devices(p, t)
    \/ \E p \in Procs : logout_all_exec(p)
    \/ \E p \in Procs : logout_all_commit(p)
    \/ \E p \in Procs, t \in accessTokens : list_active_sessions(p, t)
    \/ \E p \in Procs : list_select(p)
    \/ \E p \in Procs, t \in accessTokens, sid \in 1..(minted + 1) : delete_session(p, t, sid)
    \/ \E p \in Procs : delete_session_select(p)
    \/ \E p \in Procs : delete_session_delete(p)
    \/ \E p \in Procs, t \in accessTokens : delete_account(p, t)
    \/ \E p \in Procs : delete_account_exec(p)
    \/ \E p \in Procs : delete_account_commit(p)

SpecSessions == InitSessions /\ [][NextSessions]_vars

(* ------------------ two accounts that have logged in ------------------- *)
\* the store after both accounts have logged in once, at time 0, and hold the
\* credentials they were handed
InitLoggedIn ==
    /\ users = <<[User("a@x.com", "neo", hash_password("longpass1", gensalt(0)), TRUE)
                    EXCEPT !.last_login_at = 0],
                 [User("b@x.com", NoAlias, hash_password("longpass2", gensalt(0)), TRUE)
                    EXCEPT !.last_login_at = 0]>>
    /\ sessions = {UserSession(u, u, hash_refresh_token(generate_refresh_token(u)), 0) :
                     u \in 1..2}
    /\ now = 0
    /\ ticks = 0
    /\ minted = 2
    /\ started = 0
    /\ calls = [p \in Procs |-> Idle]
    /\ accessTokens = {create_access_token(u, 0) : u \in 1..2}
    /\ issued = {[secret |-> generate_refresh_token(u), uid |-> u] : u \in 1..2}
    /\ outstanding = {}
    /\ loggedOut = {}
    /\ swept = {}
    /\ chosen = <<"longpass1", "longpass2">>
    /\ last = Event("init", Pending)

\* login, logout-all and list-sessions
NextLoggedIn ==
    \/ \E p \in Procs, email \in Emails, password \in Passwords : login_user(p, email, password)
    \/ \E p \in Procs : create_refresh_token_session(p)
    \/ \E p \in Procs : login_commit(p)
    \/ \E p \in Procs, t \in accessTokens : logout_user_from_all_devices(p, t)
    \/ \E p \in Procs : logout_all_exec(p)
    \/ \E p \in Procs : logout_all_commit(p)
    \/ \E p \in Procs, t \in accessTokens : list_active_sessions(p, t)
    \/ \E p \in Procs : list_select(p)

SpecLoggedIn == InitLoggedIn /\ [][NextLoggedIn]_vars

(* ------------------ passwords of every accepted length ------------------ *)
\* schemas/user.py: a password has a minimum length and no maximum
AllPasswords == Passwords \cup LongPasswords

\* what the password_hash column of a row written outside register can hold
StoredDigests == {hash_password("longpass2", gensalt(0)), <<"md5", "longpass2">>}

\* the seed account, and a second row whose password_hash column holds any
\* string the column type admits
InitPasswords ==
    /\ users \in {<<User("a@x.com", "neo", hash_password("longpass1", gensalt(0)), TRUE),
                    User("b@x.com", NoAlias, d, TRUE)>> : d \in StoredDigests}
    /\ sessions = {}
    /\ now = 0
    /\ ticks = 0
    /\ minted = 0
    /\ started = 0
    /\ calls = [p \in Procs |-> Idle]
    /\ accessTokens = {}
    /\ issued = {}
    /\ outstanding = {}
    /\ loggedOut = {}
    /\ swept = {}
    /\ chosen = <<"longpass1", "longpass2">>
    /\ last = Event("init", Pending)

\* register and login
NextPasswords ==
    \/ \E p \in Procs, password \in LongPasswords :
          register_user(p, "c@x.com", NoAlias, password)
    \/ \E p \in Procs : register_check_alias(p)
    \/ \E p \in Procs : register_insert(p)
    \/ \E p \in Procs, email \in RegisterEmails, password \in AllPasswords :
          login_user(p, email, password)
    \/ \E p \in Procs : create_refresh_token_session(p)
    \/ \E p \in Procs : login_commit(p)

SpecPasswords == InitPasswords /\ [][NextPasswords]_vars

(* -------------------- sessions that outlive their expiry ---------------- *)
\* the seed account, login, the clock, refresh, and every handler that reads
\* or removes session rows
NextExpiry ==
    \/ \E d \in TickSteps : Tick(d)
    \/ \E t \in RefreshSecrets : refresh_access_token(t)
    \/ \E p \in Procs, email \in Emails, password \in Passwords : login_user(p, email, password)
    \/ \E p \in Procs : create_refresh_token_session(p)
    \/ \E p \in Procs : login_commit(p)
    \/ \E p \in Procs, t \in accessTokens : logout_user_from_all_devices(p, t)
    \/ \E p \in Procs : logout_all_exec(p)
    \/ \E p \in Procs : logout_all_commit(p)
    \/ \E p \in Procs, t \in accessTokens : list_active_sessions(p, t)
    \/ \E p \in Procs : list_select(p)
    \/ \E p \in Procs, t \in accessTokens, sid \in 1..(minted + 1) : delete_session(p, t, sid)
    \/ \E p \in Procs : delete_session_select(p)
    \/ \E p \in Procs : delete_session_delete(p)
    \/ \E p \in Procs, t \in accessTokens : delete_account(p, t)
    \/ \E p \in Procs : delete_account_exec(p)
    \/ \E p \in Procs : delete_account_commit(p)

SpecExpiry == Init /\ [][NextExpiry]_vars

(* ------------------- registering after a soft delete -------------------- *)
\* register, login and delete-account
NextDeletion ==
    \/ \E p \in Procs, email \in Emails, alias \in Aliases, password \in NewPasswords :
          register_user(p, email, alias, password)
    \/ \E p \in Procs : register_check_alias(p)
    \/ \E p \in Procs : register_insert(p)
    \/ \E p \in Procs, email \in Emails, password \in Passwords : login_user(p, email, password)
    \/ \E p \in Procs : create_refresh_token_session(p)
    \/ \E p \in Procs : login_commit(p)
    \/ \E p \in Procs, t \in accessTokens : delete_account(p, t)
    \/ \E p \in Procs : delete_account_exec(p)
    \/ \E p \in Procs : delete_account_commit(p)

SpecDeletion == Init /\ [][NextDeletion]_vars

(* ======================= the claims, C1 to C10 ======================== *)
Validations == {"refresh", "logout"}
Classified == {Ok200, RefreshTokenInvalid, RefreshTokenExpired, AccountDeleted,
               AccountInactive, UserInactiveOrMissing}
RowOf(secret) == {s \in sessions : s.refresh_token_hash = hash_refresh_token(secret)}
Quiet == \A p \in Procs : calls[p].pc = "idle"

\* C1: refresh returns an access credential only when, at validation time, a row
\* matches the presented secret, the row's owner exists, is not soft-deleted and
\* is active, and the row is not expired; in every other case it returns none.
C1_RefreshIssuesOnlyWhenValid ==
    (last.op = "refresh" /\ (last.status = Ok200 \/ last.access # NoToken))
        => Live(last.secret)

\* a refresh met a stored row that is expired or whose owner is disabled, and
\* returned no credential
C1_Witness ==
    /\ last.op = "refresh"
    /\ RowOf(last.secret) # {}
    /\ ~Live(last.secret)
    /\ last.access = NoToken

\* C2: once a logout of a valid secret has been served, every later refresh or
\* logout of the identical secret fails with RefreshTokenInvalid.
C2_LogoutRevokes ==
    [][(last'.op \in Validations /\ last'.secret \in loggedOut)
          => last'.status = RefreshTokenInvalid]_vars

C5_RaceLoserGetsEmailTaken ==
    (last.op = "register" /\ last.raced /\ last.status # AliasTaken)
        => /\ last.status = EmailTaken
           /\ Cardinality(UsersByEmail(last.email)) = 1

\* C6: once a login and a deleteAccount of one identity have both completed, no
\* session row of the soft-deleted identity is left.
C6_NoSessionOfDeleted ==
    Quiet => \A i \in DOMAIN users : users[i].is_deleted => SessionsOf(i) = {}

\* C7: every refresh or logout ends in success or in one of the classified
\* errors, never in an unclassified internal failure.
C7_ValidateClassified ==
    (last.op \in Validations) => last.status \in Classified

\* C8: a secret returned by a login validates on every refresh made while its
\* session is neither revoked nor expired and its owner is active and not deleted.
C8_RefreshRepeatable ==
    (last.op = "refresh" /\ Live(last.secret)
     /\ \E i \in issued : i.secret = last.secret)
        => last.status = Ok200

\* C9: a refresh, served or refused, leaves the session store as it was.
C9_RefreshKeepsStore ==
    [][last'.op = "refresh" => (sessions' = sessions /\ minted' = minted)]_vars

\* a refresh was answered for a secret whose row is stored
C9_Witness ==
    /\ last.op = "refresh"
    /\ \E s \in sessions : SecretOf(s) = last.secret

\* C10: the credential a refresh returns for a valid secret of a login names, as
\* its subject, the identity whose login produced the secret.
C10_RefreshSubjectIsOwner ==
    \A i \in issued :
        (last.op = "refresh" /\ last.secret = i.secret /\ Live(i.secret))
            => last.access.sub = i.uid

(* ======================= the claims, C11 to C20 ======================= *)
\* C11: validate checks the owner's state before the expiry: for an expired
\* session it fails with AccountDeleted when the owner is soft-deleted and with
\* the inactive-account error when the owner is inactive, never with
\* RefreshTokenExpired.
C11_IdentityBeforeExpiry ==
    \A s \in RowOf(last.secret) :
        (last.op \in Validations /\ s.expires_at < now /\ s.user_id \in DOMAIN users)
            => /\ users[s.user_id].is_deleted => last.status = AccountDeleted
               /\ (~users[s.user_id].is_deleted /\ ~users[s.user_id].is_active)
                     => last.status \in {AccountInactive, UserInactiveOrMissing}

\* C12: for a secret that matches a stored row, validate fails with
\* RefreshTokenInvalid when the row's owner no longer exists and with
\* AccountInactive when the owner exists, is not soft-deleted and is not active.
C12_MissingAndInactiveDistinct ==
    \A s \in RowOf(last.secret) :
        last.op \in Validations
            => /\ s.user_id \notin DOMAIN users => last.status = RefreshTokenInvalid
               /\ (s.user_id \in DOMAIN users /\ ~users[s.user_id].is_deleted
                   /\ ~users[s.user_id].is_active)
                     => last.status = AccountInactive

AuthenticatedOps == {"me", "logout_all", "list", "delete_session", "delete_account"}

C14_DeleteSessionOwnRowOnly ==
    [][last'.op = "delete_session"
          => /\ sessions' \subseteq sessions
             /\ \A s \in sessions \ sessions' :
                   s.id = last'.sid /\ s.user_id = last'.uid
             /\ \A p \in Procs :
                   (calls[p].pc = "ds_select" /\ calls'[p].pc # "ds_select")
                      => LET found == {s \in sessions : s.id = calls[p].sid}
                         IN /\ found = {} => last'.status = SessionNotFound
                            /\ (\E s \in found : s.user_id # calls[p].uid)
                                  => last'.status = SessionForbidden
                            /\ (\E s \in found : s.user_id = calls[p].uid)
                                  => calls'[p].pc = "ds_delete"
             /\ last'.status \in {SessionNotFound, SessionForbidden}
                   => sessions' = sessions]_vars

\* a user asked to delete a session of another user, was refused, and the row
\* is still stored
C14_Witness ==
    /\ last.op = "delete_session"
    /\ last.status = SessionForbidden
    /\ \E s \in sessions : s.id = last.sid /\ s.user_id # last.uid

C16_LoginAtomic ==
    /\ Quiet => \A s \in sessions :
                   /\ users[s.user_id].last_login_at # Never
                   /\ users[s.user_id].last_login_at >= s.created_at
    /\ \A i \in issued : i.secret \in {generate_refresh_token(k) : k \in 1..minted}

C18_FailedLoginCreatesNothing ==
    [][(last'.op = "login" /\ last'.status \notin {Ok200, Pending})
          => /\ sessions' = sessions
             /\ users' = users
             /\ \A s \in sessions' :
                   \/ \E i \in issued' : i.secret = SecretOf(s)
                   \/ \E p \in Procs : /\ calls'[p].pc = "login_commit"
                                       /\ calls'[p].secret = SecretOf(s)]_vars

C20_RegisterRejectsTaken ==
    [][last'.op = "register"
          => /\ (started' # started /\ UsersByEmail(last'.email) # {})
                   => last'.status = EmailTaken /\ calls' = calls
             /\ \A p \in Procs :
                   (calls[p].pc = "reg_alias" /\ calls'[p].pc # "reg_alias")
                      => IF calls[p].alias # NoAlias /\ UsersByAlias(calls[p].alias) # {}
                         THEN last'.status = AliasTaken
                         ELSE calls'[p].pc = "reg_insert"
             /\ last'.status \in {EmailTaken, AliasTaken} => users' = users]_vars

(* ======================= the claims, C21 to C30 ======================= *)
\* C21 as first stated: after logoutAll(u) has completed, listSessions(u)
\* returns an empty sequence, provided no login for u completes in between.
C21_ListEmptyAfterLogoutAll ==
    (last.op = "list" /\ last.status = Ok200 /\ last.uid \in {w.uid : w \in swept})
        => last.listing = {}

\* C21: after logoutAll(u) has completed, listSessions(u) returns an empty
\* sequence, provided no login for u has inserted its session row since that
\* logoutAll's DELETE ran, be the login completed or still running.
C21_ListEmptyUnlessRowInserted ==
    (last.op = "list" /\ last.status = Ok200
     /\ [uid |-> last.uid, strict |-> TRUE] \in swept)
        => last.listing = {}

\* a user that had a session logged out everywhere and then listed its sessions
C21_Witness ==
    /\ last.op = "list"
    /\ last.status = Ok200
    /\ [uid |-> last.uid, strict |-> TRUE] \in swept
    /\ \E i \in issued : i.uid = last.uid
    /\ last.listing = {}

\* C22: every session row stores the digest of the secret its login drew, never
\* the secret: no stored value equals a secret handed out or about to be, and a
\* refresh or logout finds no row exactly when no stored value is the digest of
\* what was presented.
C22_RowsStoreDigests ==
    /\ \A s \in sessions :
          /\ s.refresh_token_hash = hash_refresh_token(generate_refresh_token(s.id))
          /\ \A i \in issued : s.refresh_token_hash # i.secret
          /\ \A p \in Procs : s.refresh_token_hash # calls[p].secret
    /\ (last.op = "refresh")
          => (last.status = RefreshTokenInvalid
                <=> ~\E s \in sessions :
                       s.refresh_token_hash = hash_refresh_token(last.secret))

\* a refresh presented a secret that a login had returned, and its digest is
\* what a row stores
C22_Witness ==
    /\ last.op = "refresh"
    /\ \E i \in issued : i.secret = last.secret
    /\ \E s \in sessions : s.refresh_token_hash = hash_refresh_token(last.secret)
    /\ last.status # RefreshTokenInvalid

\* C23: no two session rows share a refresh digest, so the lookup by digest
\* matches at most one row for whatever a client presents, and a secret whose
\* row is gone never validates.
C23_DigestsUnique ==
    /\ \A s1, s2 \in sessions :
          s1.refresh_token_hash = s2.refresh_token_hash => s1 = s2
    /\ \A t \in RefreshSecrets : Cardinality(RowOf(t)) <= 1
    /\ (last.op \in Validations /\ RowOf(last.secret) = {} /\ last.status = Ok200)
          => last.op = "logout"

\* two sessions are stored, under different digests
C23_Witness ==
    \E s1, s2 \in sessions :
        /\ s1.id # s2.id
        /\ s1.refresh_token_hash # s2.refresh_token_hash
        /\ \E i \in issued : hash_refresh_token(i.secret) = s1.refresh_token_hash

\* C24: a session row is created only by a login that has passed its checks,
\* one row per such login and owned by the identity that logged in; no step of
\* any other operation adds a row, and every row ever created belongs to a
\* login that succeeded or is about to.
C24_OnlyLoginCreatesSessions ==
    [][/\ (sessions' \ sessions) # {}
            => /\ last'.op = "login"
               /\ Cardinality(sessions' \ sessions) = 1
               /\ minted' = minted + 1
               /\ \E p \in Procs :
                     /\ calls[p].pc = "login_session" /\ calls'[p].pc = "login_commit"
                     /\ \A s \in sessions' \ sessions :
                           /\ s.user_id = calls[p].uid
                           /\ SecretOf(s) = calls'[p].secret
       /\ last'.op # "login" => (sessions' \subseteq sessions /\ minted' = minted)
       /\ minted' - minted =
             (Cardinality(issued') - Cardinality(issued))
             + (Cardinality({p \in Procs : calls'[p].pc = "login_commit"})
                - Cardinality({p \in Procs : calls[p].pc = "login_commit"}))]_vars

\* C25: no response carries a stored refresh digest: listSessions returns, for
\* each row whose user_id is the requesting user and for no other row, its id,
\* created_at, expires_at, user_agent and ip_address and nothing else, and no
\* other field of a response holds a digest.
C25_DigestsNeverReturned ==
    LET digests == {s.refresh_token_hash : s \in sessions}
    IN /\ last.refresh \notin digests
       /\ last.op = "list"
             => /\ \A e \in last.listing :
                      DOMAIN e = {"id", "created_at", "expires_at",
                                  "user_agent", "ip_address"}
                /\ last.status = Ok200
                      => last.listing =
                            {[id |-> s.id, created_at |-> s.created_at,
                              expires_at |-> s.expires_at, user_agent |-> s.user_agent,
                              ip_address |-> s.ip_address] : s \in SessionsOf(last.uid)}

\* a user listed its sessions while another user's session was stored, and got
\* its own
C25_Witness ==
    /\ last.op = "list"
    /\ last.status = Ok200
    /\ last.listing # {}
    /\ \E s \in sessions : s.user_id # last.uid

\* C26: every password verifies against its own hash although two hashes of
\* it differ, no other password verifies against that hash, and so a login
\* for a registered, non-deleted identity passes the password check exactly
\* when the presented password is the registered one
Salts == {gensalt(k) : k \in 0..1}

C26_PasswordDecidesLogin ==
    /\ \A P \in AllPasswords : \A s1, s2 \in Salts :
          s1 # s2 => hash_password(P, s1) # hash_password(P, s2)
    /\ \A u \in DOMAIN users : ~Malformed(users[u].password_hash) =>
          \A P \in AllPasswords :
             verify_password(P, users[u].password_hash) <=> P = chosen[u]
    /\ (/\ last.op = "login" /\ last.password # "" /\ last.uid # 0
         /\ ~users[last.uid].is_deleted
         /\ ~Malformed(users[last.uid].password_hash))
          => (last.status = Pending <=> last.password = chosen[last.uid])

\* C27: verifying a password against a malformed stored digest reports a
\* failed verification, so the login is answered InvalidCredentials and no
\* session is being created for it
C27_MalformedDigestRejected ==
    (/\ last.op = "login" /\ last.password # "" /\ last.uid # 0
     /\ ~users[last.uid].is_deleted
     /\ Malformed(users[last.uid].password_hash))
      => /\ last.status = InvalidCredentials
         /\ \A p \in Procs : calls[p].op = "login" => calls[p].uid # last.uid

\* C28: a session row expires thirty days after its creation, and a refresh
\* presenting the secret of a row whose owner is active and not deleted
\* succeeds while now <= expires_at and is answered RefreshTokenExpired after
C28_ValidUntilExpiry ==
    /\ \A s \in sessions : s.expires_at = s.created_at + REFRESH_DAYS * 24 * 60
    /\ last.op = "refresh" =>
          \A s \in sessions :
             (/\ s.refresh_token_hash = hash_refresh_token(last.secret)
              /\ s.user_id \in DOMAIN users
              /\ users[s.user_id].is_active /\ ~users[s.user_id].is_deleted)
             => last.status = IF now <= s.expires_at THEN Ok200 ELSE RefreshTokenExpired

\* C29: expiry is lazy: a refused refresh deletes nothing, a session row past
\* its expiry leaves the store only through logout-all, delete-session or
\* delete-account, and until then list-sessions keeps returning it
Expired(s) == s.expires_at < now

Revocations == {"logout", "delete_session", "logout_all", "delete_account"}

C30_RevocationExact ==
    [][LET removed == sessions \ sessions'
       IN /\ (last'.op = "logout" /\ Live(last'.secret))
                => /\ removed = {s \in sessions :
                                   s.refresh_token_hash = hash_refresh_token(last'.secret)}
                   /\ removed # {}
          /\ last'.op = "delete_session" => removed \subseteq {s \in sessions : s.id = last'.sid}
          /\ last'.op \in {"logout_all", "delete_account"}
                => removed \subseteq SessionsOf(last'.uid)
          /\ last'.op \in Revocations
                => /\ sessions' \subseteq sessions
                   /\ \A i \in issued :
                         Live(i.secret)' => validate_refresh_token(i.secret)'.status = Ok200]_vars

\* C31: an access credential is not revoked with the sessions: presented for
\* an active, non-deleted user it is rejected exactly when its exp has passed,
\* whether or not logout or logout-all has removed the user's session rows
Rejections == {TokenInvalidOrExpired, UserNotFound, AccountInactive, AccountDeleted}

C31_NoRevocationOfAccess ==
    (/\ last.op \in AuthenticatedOps
     /\ last.presented # NoToken
     /\ last.presented.sub \in DOMAIN users
     /\ users[last.presented.sub].is_active
     /\ ~users[last.presented.sub].is_deleted)
      => /\ now < last.presented.exp => last.status \notin Rejections
         /\ now > last.presented.exp => last.status = TokenInvalidOrExpired

\* logout-all has emptied the user's sessions and a credential issued before
\* it has authenticated the user again
C31_Witness ==
    /\ last.op = "me" /\ last.status = Ok200
    /\ now < last.presented.exp
    /\ last.uid \in {w.uid : w \in swept}
    /\ SessionsOf(last.uid) = {}

\* C32: login does not look at is_active: an inactive, non-deleted identity
\* presenting its password passes the check and is answered with an access
\* credential and the secret of a new session row; no refresh of a secret
\* whose owner is inactive succeeds, and the credential is rejected by every
\* authenticated operation
C32_InactiveLogsInInVain ==
    /\ (/\ last.op = "login" /\ last.password # "" /\ last.uid # 0
         /\ ~users[last.uid].is_active /\ ~users[last.uid].is_deleted)
          => /\ last.status = Pending <=> last.password = chosen[last.uid]
             /\ last.status = Pending
                   => \E p \in Procs : /\ calls[p].pc = "login_session"
                                         /\ calls[p].uid = last.uid
                                         /\ calls[p].access.sub = last.uid
    /\ (/\ last.op = "login" /\ last.status = Ok200
         /\ ~users[last.uid].is_active /\ ~users[last.uid].is_deleted)
          => /\ last.access \in accessTokens /\ last.access.sub = last.uid
             /\ \E s \in sessions : /\ s.user_id = last.uid
                                       /\ s.refresh_token_hash = hash_refresh_token(last.refresh)
    /\ last.op = "refresh"
          => \A s \in sessions :
                (/\ s.refresh_token_hash = hash_refresh_token(last.secret)
                 /\ ~users[s.user_id].is_active)
                => last.status # Ok200
    /\ (/\ last.op \in AuthenticatedOps /\ last.presented # NoToken
         /\ last.presented.sub \in DOMAIN users
         /\ ~users[last.presented.sub].is_active)
          => last.status \in Rejections

\* an inactive identity holds a credential and a session row from a login,
\* and the credential, not yet expired, has been refused
C32_Witness ==
    /\ last.op = "me" /\ last.status = AccountInactive
    /\ last.presented \in accessTokens /\ now < last.presented.exp
    /\ ~users[last.presented.sub].is_deleted
    /\ SessionsOf(last.presented.sub) # {}

DeletedRows == {u \in DOMAIN users : users[u].is_deleted}

====
